---- MODULE Spec2Model ----
(***************************************************************************)
(* The OMI transaction family's handler (sawtooth_omi/handler.py): the     *)
(* address codec, the record codec, the authorization check, the domain    *)
(* validators and OMITransactionHandler.apply, run against an              *)
(* address-keyed state store.                                              *)
(***************************************************************************)
EXTENDS Integers, Sequences, FiniteSets, TLC

\* ---- bounds of the model ------------------------------------------------

\* number of apply calls the host makes in one behaviour
MaxCalls == 2

\* number of apply calls the host starts when it interleaves them
MaxInvocations == 3

\* number of apply calls in a behaviour that remembers the call before the last
MaxFollowing == 2

\* natural keys (titles and names) and public keys of the transactions
Keys == {"a", "b"}
PubKeys == {"K1", "K2"}
\* the splits and songwriter references a Work or Recording may carry
Credits ==
  {[splits |-> <<>>, songwriters |-> <<>>],
   [splits |-> <<>>, songwriters |-> <<"a">>],
   [splits |-> <<40, 35, 25>>, songwriters |-> <<"a">>],
   [splits |-> <<40, 35, 20>>, songwriters |-> <<"a">>]}

\* ---- actions (handler.py:40-43) -----------------------------------------

WORK == "SetWork"
RECORDING == "SetRecording"
INDIVIDUAL == "SetIndividualIdentity"
ORGANIZATION == "SetOrganizationalIdentity"

KnownActions == {WORK, RECORDING, INDIVIDUAL, ORGANIZATION}
\* an action tag outside the four the lookup tables know
UnknownAction == "DeleteWork"

\* ---- exceptions -----------------------------------------------------------

\* the result of a call: a value returned, or an exception raised
Return(v) == [exc |-> "none", msg |-> "", val |-> v]
Raise(kind, msg) == [exc |-> kind, msg |-> msg, val |-> <<>>]

InvalidTransaction(msg) == Raise("InvalidTransaction", msg)
InternalError(msg) == Raise("InternalError", msg)
DecodeError == Raise("DecodeError", "")
KeyError(key) == Raise("KeyError", key)

\* ---- address --------------------------------------------------------------

\* hex digits are written as the integers 0..15
\* hashlib.sha512(name.encode('utf-8')).hexdigest(), for the names in use
SHA512 ==
  [name \in Keys \cup PubKeys \cup {"OMI"} |->
     CASE name = "OMI" ->
       <<3,8,10,10,5,0,1,12,14,0,6,9,9,10,13,0,4,2,1,1,12,3,15,10,4,10,6,5,5,
       7,7,10,14,3,9,15,7,7,3,13,7,6,8,3,2,5,0,11,10,9,5,11,8,1,7,15,6,0,11,
       4,15,6,10,0,3,15,15,8,5,7,2,10,1,7,2,5,14,1,12,2,13,4,15,15,10,1,2,9,
       11,7,0,0,2,3,4,8,6,11,7,1,2,8,6,7,12,11,8,9,8,0,4,0,14,14,3,12,3,13,4,
       10,0,15,15,5,7,11,4,7>>
       [] name = "a" ->
       <<1,15,4,0,15,12,9,2,13,10,2,4,1,6,9,4,7,5,0,9,7,9,14,14,6,12,15,5,8,
       2,15,2,13,5,13,7,13,2,8,14,1,8,3,3,5,13,14,0,5,10,11,12,5,4,13,0,5,6,
       0,14,0,15,5,3,0,2,8,6,0,12,6,5,2,11,15,0,8,13,5,6,0,2,5,2,10,10,5,14,
       7,4,2,1,0,5,4,6,15,3,6,9,15,11,11,11,12,14,8,12,1,2,12,15,12,7,9,5,7,
       11,2,6,5,2,15,14,9,10,7,5>>
       [] name = "b" ->
       <<5,2,6,7,7,6,8,8,2,2,14,14,6,2,4,13,4,8,15,12,14,1,5,14,12,5,12,10,7,
       9,12,11,13,6,0,2,12,11,7,15,4,12,2,1,5,7,10,5,1,6,5,5,6,9,9,1,15,2,2,
       14,15,8,12,7,11,5,14,15,7,11,1,8,13,1,15,15,4,1,12,5,9,3,7,0,14,15,11,
       0,8,5,8,6,5,1,13,4,4,10,9,3,6,12,1,1,11,7,11,1,4,4,12,4,8,15,14,0,4,
       13,15,3,12,6,10,3,14,8,13,10>>
       [] name = "K1" ->
       <<6,0,11,2,2,13,3,8,12,9,3,7,10,4,8,1,6,10,6,0,9,10,8,14,0,11,10,14,
       11,4,1,15,14,11,9,7,12,8,8,9,10,15,14,9,2,15,12,11,5,13,4,12,12,3,5,7,
       15,2,10,10,13,9,15,12,15,11,14,12,14,15,4,0,15,1,13,3,13,9,10,4,7,3,4,
       3,14,12,10,11,6,0,2,8,2,2,5,5,12,9,0,4,15,5,5,5,4,8,9,4,7,1,4,2,7,13,
       15,13,11,12,10,14,14,7,1,6,0,9,1,3>>
       [] name = "K2" ->
       <<0,15,6,9,9,1,10,6,4,7,4,0,14,1,2,1,10,15,6,11,6,5,12,9,10,1,4,14,6,
       6,9,15,2,2,13,0,10,6,15,3,5,5,7,11,15,1,6,15,6,13,11,4,9,10,14,10,15,
       0,13,8,12,1,1,5,15,2,4,3,11,6,10,10,2,1,15,5,12,13,9,14,14,6,6,3,4,0,
       13,6,0,7,4,2,2,4,10,12,6,2,9,14,6,1,6,6,2,11,0,1,15,1,14,15,7,14,14,8,
       1,11,15,10,11,14,11,14,7,1,1,4>>]

_hash_name(name) == SHA512[name]

FAMILY_NAME == "OMI"
OMI_ADDRESS_PREFIX == SubSeq(_hash_name(FAMILY_NAME), 1, 6)

\* the infix table with one infix for both identity actions
_get_address_infix_identities_shared(action) ==
  CASE action = WORK -> Return(<<10, 0>>)
    [] action = RECORDING -> Return(<<10, 1>>)
    [] action = INDIVIDUAL -> Return(<<0, 0>>)
    [] action = ORGANIZATION -> Return(<<0, 0>>)
    [] OTHER -> KeyError(action)

\* the infix table with the entry of WORK copied to RECORDING
_get_address_infix_recording_a0(action) ==
  CASE action = WORK -> Return(<<10, 0>>)
    [] action = RECORDING -> Return(<<10, 0>>)
    [] action = INDIVIDUAL -> Return(<<0, 0>>)
    [] action = ORGANIZATION -> Return(<<0, 1>>)
    [] OTHER -> KeyError(action)

\* the infix table; a missing key is a KeyError
_get_address_infix(action) ==
  CASE action = WORK -> Return(<<10, 0>>)
    [] action = RECORDING -> Return(<<10, 1>>)
    [] action = INDIVIDUAL -> Return(<<0, 0>>)
    [] action = ORGANIZATION -> Return(<<0, 1>>)
    [] OTHER -> KeyError(action)

\* _get_unique_key that takes the owner key for the natural key
_get_unique_key_owner(obj, action) ==
  IF action \in {WORK, RECORDING} THEN Return(obj.pubkey)
  ELSE IF action \in {INDIVIDUAL, ORGANIZATION}
       THEN Return(obj.registering_pubkey)
  ELSE Raise("UnboundLocalError", "key")

\* neither branch binds key for an unknown action: UnboundLocalError
_get_unique_key(obj, action) ==
  IF action \in {WORK, RECORDING} THEN Return(obj.title)
  ELSE IF action \in {INDIVIDUAL, ORGANIZATION} THEN Return(obj.name)
  ELSE Raise("UnboundLocalError", "key")

\* s[-64:]
Last64(s) == SubSeq(s, Len(s) - 63, Len(s))

\* s[-62:]
Last62(s) == SubSeq(s, Len(s) - 61, Len(s))

make_omi_address(obj, action) ==
  LET infix == _get_address_infix(action) IN
  IF infix.exc # "none" THEN infix
  ELSE LET key == _get_unique_key(obj, action) IN
       IF key.exc # "none" THEN key
       ELSE Return(OMI_ADDRESS_PREFIX \o infix.val \o Last62(_hash_name(key.val)))

\* ---- record codec ---------------------------------------------------------

\* the fields of each protobuf message type
WorkFields == {"title", "pubkey", "splits", "songwriters"}
RecordingFields == {"title", "pubkey", "splits", "songwriters"}
IndividualIdentityFields == {"name", "registering_pubkey"}
OrganizationalIdentityFields == {"name", "registering_pubkey"}
TransactionHeaderFields == {"signer_pubkey"}
OMITransactionPayloadFields == {"action"}

\* proto3 default of a field: the empty list for a repeated field, the empty
\* string for a string field
Default(field) == IF field \in {"splits", "songwriters"} THEN <<>> ELSE ""

\* bytes that are no protobuf message at all
Garbage == [malformed |-> TRUE]

\* Message.SerializeToString: the wire form carries the fields that differ
\* from their default, and nothing for the others
SerializeToString(obj) ==
  LET present == {f \in DOMAIN obj : obj[f] # Default(f)} IN
  [f \in present |-> obj[f]]

\* Message.ParseFromString: the fields on the wire, the default for a field
\* that is not; fields the type does not know are skipped
ParseFromString(fields, string) ==
  IF "malformed" \in DOMAIN string THEN DecodeError
  ELSE Return([f \in fields |->
                 IF f \in DOMAIN string THEN string[f] ELSE Default(f)])

obj_types(action) ==
  CASE action = WORK -> Return(WorkFields)
    [] action = RECORDING -> Return(RecordingFields)
    [] action = INDIVIDUAL -> Return(IndividualIdentityFields)
    [] action = ORGANIZATION -> Return(OrganizationalIdentityFields)
    [] OTHER -> KeyError(action)

\* _parse_object with the lookup inside the try and a bare except
_parse_object_catch_all(obj_string, action) ==
  LET obj_type == obj_types(action) IN
  IF obj_type.exc # "none" THEN InvalidTransaction("Invalid action")
  ELSE LET parsed_obj == ParseFromString(obj_type.val, obj_string) IN
       IF parsed_obj.exc = "DecodeError"
       THEN InvalidTransaction("Invalid action")
       ELSE parsed_obj

_parse_object(obj_string, action) ==
  LET obj_type == obj_types(action) IN
  IF obj_type.exc # "none" THEN obj_type
  ELSE LET parsed_obj == ParseFromString(obj_type.val, obj_string) IN
       IF parsed_obj.exc = "DecodeError"
       THEN InvalidTransaction("Invalid action")
       ELSE parsed_obj

\* ---- transaction ----------------------------------------------------------

_unpack_transaction(transaction) ==
  LET header == ParseFromString(TransactionHeaderFields, transaction.header) IN
  IF header.exc # "none" THEN header
  ELSE LET payload == ParseFromString(OMITransactionPayloadFields,
                                      transaction.payload) IN
       IF payload.exc # "none" THEN payload
       ELSE LET obj == _parse_object(transaction.data, payload.val.action) IN
            IF obj.exc # "none" THEN obj
            ELSE Return([action |-> payload.val.action,
                         obj |-> obj.val,
                         signer |-> header.val.signer_pubkey])

\* ---- authorization and validation -----------------------------------------

\* Python's None
None == [none |-> TRUE]

\* _check_authorization with the comparison turned around
_check_authorization_inverted(state_obj, action, signer) ==
  IF state_obj = None THEN Return(None)
  ELSE LET pubkey == IF action \in {WORK, RECORDING}
                     THEN state_obj.pubkey
                     ELSE state_obj.registering_pubkey IN
       IF pubkey = signer
       THEN InvalidTransaction("Signing key mismatch")
       ELSE Return(None)

\* _check_authorization without the comparison
_check_authorization_unchecked(state_obj, action, signer) == Return(None)

\* _check_authorization without the branch of the identity actions
_check_authorization_works_only(state_obj, action, signer) ==
  IF state_obj = None THEN Return(None)
  ELSE IF action \in {WORK, RECORDING} /\ state_obj.pubkey # signer
       THEN InvalidTransaction("Signing key mismatch")
       ELSE Return(None)

_check_authorization(state_obj, action, signer) ==
  IF state_obj = None THEN Return(None)
  ELSE LET pubkey == IF action \in {WORK, RECORDING}
                     THEN state_obj.pubkey
                     ELSE state_obj.registering_pubkey IN
       IF pubkey # signer
       THEN InvalidTransaction("Signing key mismatch")
       ELSE Return(None)

\* a docstring and no body: returns None for every object
_check_split_sums(obj, action) == Return(None)

\* a docstring and no body: returns None for every object
_check_references(obj, action) == Return(None)

\* ---- state ----------------------------------------------------------------

\* The store is a map from the addresses that are set to their bytes.
\* state.get(addresses): the entries of the addresses that are set
StateGet(state, addresses) ==
  SelectSeq([i \in 1..Len(addresses) |->
               [address |-> addresses[i],
                data |-> IF addresses[i] \in DOMAIN state
                         THEN state[addresses[i]] ELSE Garbage,
                 found |-> addresses[i] \in DOMAIN state]],
            LAMBDA e : e.found)

\* state.set(entries) for one entry: the store either writes the entry and
\* returns its address, or writes nothing and returns no address
StateSet(state, entry, ack) ==
  IF ack
  THEN [state |-> [a \in DOMAIN state \cup {entry.address} |->
                     IF a = entry.address THEN entry.data ELSE state[a]],
        addresses |-> <<entry.address>>]
  ELSE [state |-> state, addresses |-> <<>>]

\* _get_state_object whose except clause also takes InvalidTransaction
_get_state_object_swallow(state, address, action) ==
  LET state_entries == StateGet(state, <<address>>) IN
  IF Len(state_entries) = 0 THEN Return(None)
  ELSE LET obj == _parse_object(state_entries[1].data, action) IN
       IF obj.exc = "InvalidTransaction" THEN Return(None) ELSE obj

\* _get_state_object that returns the entry's bytes unparsed
_get_state_object_raw(state, address, action) ==
  LET state_entries == StateGet(state, <<address>>) IN
  IF Len(state_entries) = 0 THEN Return(None)
  ELSE Return(state_entries[1].data)

_get_state_object(state, address, action) ==
  LET state_entries == StateGet(state, <<address>>) IN
  IF Len(state_entries) = 0 THEN Return(None)
  ELSE _parse_object(state_entries[1].data, action)

\* _set_state_object that merges the record into the stored one
_set_state_object_merge(state, address, obj, ack) ==
  LET new == SerializeToString(obj)
      old == IF address \in DOMAIN state THEN state[address] ELSE new
      obj_string == [f \in DOMAIN old \cup DOMAIN new |->
                       IF f \in DOMAIN new THEN new[f] ELSE old[f]]
      written == StateSet(state, [address |-> address, data |-> obj_string], ack)
  IN  IF Len(written.addresses) = 0
      THEN [InternalError("State error") EXCEPT !.val = written.state]
      ELSE Return(written.state)

\* _set_state_object without the test of the addresses returned
_set_state_object_unchecked(state, address, obj, ack) ==
  LET obj_string == SerializeToString(obj)
      written == StateSet(state, [address |-> address, data |-> obj_string], ack)
  IN  Return(written.state)

\* the result carries the store as the call leaves it
_set_state_object(state, address, obj, ack) ==
  LET obj_string == SerializeToString(obj)
      written == StateSet(state, [address |-> address, data |-> obj_string], ack)
  IN  IF Len(written.addresses) = 0
      THEN [InternalError("State error") EXCEPT !.val = written.state]
      ELSE Return(written.state)

Range(seq) == {seq[i] : i \in 1..Len(seq)}

\* ---- the handler ----------------------------------------------------------

\* OMITransactionHandler.namespaces
namespaces == <<OMI_ADDRESS_PREFIX>>

\* how an apply call ends: the exception it raises ("none" on return), the
\* store it leaves, the steps it completed, in order, and the addresses it
\* passed to state.get and state.set, in order
Ended(result, state, steps, addresses) ==
  [exc |-> result.exc, msg |-> result.msg, state |-> state, steps |-> steps,
   addresses |-> addresses]

\* apply that writes the record before it checks the signer
apply_write_first(transaction, state, ack) ==
  LET unpacked == _unpack_transaction(transaction) IN
  IF unpacked.exc # "none" THEN Ended(unpacked, state, <<>>, <<>>)
  ELSE
  LET action == unpacked.val.action
      txn_obj == unpacked.val.obj
      signer == unpacked.val.signer
      address == make_omi_address(txn_obj, action)
  IN
  IF address.exc # "none" THEN Ended(address, state, <<"unpack">>, <<>>)
  ELSE
  LET state_obj == _get_state_object(state, address.val, action) IN
  IF state_obj.exc # "none"
  THEN Ended(state_obj, state, <<"unpack", "address">>, <<address.val>>)
  ELSE
  LET set == _set_state_object(state, address.val, txn_obj, ack) IN
  IF set.exc # "none"
  THEN Ended(set, set.val, <<"unpack", "address", "get", "set">>, <<address.val, address.val>>)
  ELSE
  LET auth == _check_authorization(state_obj.val, action, signer) IN
  Ended(auth, set.val, <<"unpack", "address", "get", "set", "authorize">>, <<address.val, address.val>>)

apply(transaction, state, ack) ==
  LET unpacked == _unpack_transaction(transaction) IN
  IF unpacked.exc # "none" THEN Ended(unpacked, state, <<>>, <<>>)
  ELSE
  LET action == unpacked.val.action
      txn_obj == unpacked.val.obj
      signer == unpacked.val.signer
      address == make_omi_address(txn_obj, action)
  IN
  IF address.exc # "none" THEN Ended(address, state, <<"unpack">>, <<>>)
  ELSE
  LET state_obj == _get_state_object(state, address.val, action) IN
  IF state_obj.exc # "none"
  THEN Ended(state_obj, state, <<"unpack", "address">>, <<address.val>>)
  ELSE
  LET auth == _check_authorization(state_obj.val, action, signer) IN
  IF auth.exc # "none"
  THEN Ended(auth, state, <<"unpack", "address", "get">>, <<address.val>>)
  ELSE
  LET sums == _check_split_sums(txn_obj, action) IN
  IF sums.exc # "none"
  THEN Ended(sums, state, <<"unpack", "address", "get", "authorize">>, <<address.val>>)
  ELSE
  LET refs == _check_references(txn_obj, action) IN
  IF refs.exc # "none"
  THEN Ended(refs, state,
             <<"unpack", "address", "get", "authorize", "split_sums">>, <<address.val>>)
  ELSE
  LET set == _set_state_object(state, address.val, txn_obj, ack) IN
  Ended(set, set.val,
        <<"unpack", "address", "get", "authorize", "split_sums",
          "references", "set">>, <<address.val, address.val>>)

\* apply from the statement after _get_state_object has returned state_obj:
\* authorization, validation and the write
apply_after_get(transaction, state_obj, state, ack) ==
  LET unpacked == _unpack_transaction(transaction)
      action == unpacked.val.action
      txn_obj == unpacked.val.obj
      signer == unpacked.val.signer
      address == make_omi_address(txn_obj, action)
      auth == _check_authorization(state_obj, action, signer)
  IN
  IF auth.exc # "none"
  THEN Ended(auth, state, <<"unpack", "address", "get">>, <<address.val>>)
  ELSE
  LET sums == _check_split_sums(txn_obj, action) IN
  IF sums.exc # "none"
  THEN Ended(sums, state, <<"unpack", "address", "get", "authorize">>,
             <<address.val>>)
  ELSE
  LET refs == _check_references(txn_obj, action) IN
  IF refs.exc # "none"
  THEN Ended(refs, state,
             <<"unpack", "address", "get", "authorize", "split_sums">>,
             <<address.val>>)
  ELSE
  LET set == _set_state_object(state, address.val, txn_obj, ack) IN
  Ended(set, set.val,
        <<"unpack", "address", "get", "authorize", "split_sums",
          "references", "set">>, <<address.val, address.val>>)

\* ---- the host: transactions delivered one at a time -----------------------

\* the records a client can put on the wire for an action
Messages(action) ==
  IF action \in {WORK, RECORDING}
  THEN {[title |-> title, pubkey |-> pubkey,
          splits |-> c.splits, songwriters |-> c.songwriters] :
          title \in Keys, pubkey \in PubKeys, c \in Credits}
  ELSE [name : Keys, registering_pubkey : PubKeys]

\* the envelope the host hands to apply
Transaction(action, obj, signer) ==
  [header |-> SerializeToString([signer_pubkey |-> signer]),
   payload |-> SerializeToString([action |-> action]),
   data |-> SerializeToString(obj)]

WellFormed ==
  UNION {{Transaction(action, obj, signer) :
            obj \in Messages(action), signer \in PubKeys} :
         action \in KnownActions}

\* well-formed transactions of records without splits and references
Plain ==
  {t \in WellFormed : "splits" \notin DOMAIN t.data
                      /\ "songwriters" \notin DOMAIN t.data}

BadHeader == {[t EXCEPT !.header = Garbage] : t \in Plain}
BadPayload == {[t EXCEPT !.payload = Garbage] : t \in Plain}
BadData == {[t EXCEPT !.data = Garbage] : t \in Plain}
BadAction ==
  {[t EXCEPT !.payload = SerializeToString([action |-> UnknownAction])] :
     t \in Plain}

Transactions == WellFormed \cup BadHeader \cup BadPayload \cup BadData \cup BadAction

VARIABLES
  store,        \* the state store: address -> bytes, for the addresses set
  before,       \* the store as it was when the last apply call began
  transaction,  \* the transaction of the last apply call
  acked,        \* whether the last call wrote and the store acknowledged it
  result,       \* how the last apply call ended: [exc, msg]
  steps,        \* the steps the last apply call completed
  accessed,     \* the addresses the last call passed to state.get and .set
  calls,        \* number of apply calls so far
  previous,     \* the call before the last one: its transaction and its end
  pc,           \* per invocation slot: "idle", or "got" between get and set
  ptxn,         \* per invocation slot: the transaction it is applying
  seen,         \* per invocation slot: the prior record its get returned
  read          \* the prior record the get of the call that ended last
                \* returned, when calls are interleaved

vars == <<store, before, transaction, acked, result, steps, accessed, calls,
          previous, pc, ptxn, seen, read>>

\* the invocations the host may have in flight at once
Slots == {1, 2}

NoTransaction ==
  Transaction(INDIVIDUAL, [name |-> "a", registering_pubkey |-> "K1"], "K1")

EmptyStore == [a \in {} |-> Garbage]

Init ==
  /\ store = EmptyStore
  /\ before = EmptyStore
  /\ transaction = NoTransaction
  /\ acked = FALSE
  /\ result = [exc |-> "none", msg |-> ""]
  /\ steps = <<>>
  /\ accessed = <<>>
  /\ calls = 0
  /\ previous = [transaction |-> NoTransaction, exc |-> "none", called |-> FALSE]
  /\ pc = [p \in Slots |-> "idle"]
  /\ ptxn = [p \in Slots |-> NoTransaction]
  /\ seen = [p \in Slots |-> None]
  /\ read = None

\* one call of apply(t, state), from entry to return or raise, and what the
\* variables of the last call then hold
Call(t, ack) ==
  /\ LET ended == apply(t, store, ack) IN
     /\ store' = ended.state
     /\ result' = [exc |-> ended.exc, msg |-> ended.msg]
     /\ steps' = ended.steps
     /\ accessed' = ended.addresses
     /\ acked' = (ack /\ "set" \in Range(ended.steps))
  /\ before' = store
  /\ transaction' = t
  /\ calls' = calls + 1

\* the host calls apply(transaction, state); the store acknowledges the write
\* (ack) or does not
Apply(t, ack) ==
  /\ calls < MaxCalls
  /\ Call(t, ack)
  /\ UNCHANGED <<previous, pc, ptxn, seen, read>>

Next == \E t \in Transactions, ack \in BOOLEAN : Apply(t, ack)

Spec == Init /\ [][Next]_vars

\* ---- a host that interleaves two invocations at the store's calls ----------

\* invocation p runs apply(t, state) up to the return of state.get; a call
\* that raises before then ends here
Get(p, t) ==
  /\ calls < MaxInvocations
  /\ pc[p] = "idle"
  /\ LET unpacked == _unpack_transaction(t)
         address == make_omi_address(unpacked.val.obj, unpacked.val.action)
         state_obj == _get_state_object(store, address.val,
                                        unpacked.val.action)
     IN  IF \/ unpacked.exc # "none"
            \/ address.exc # "none"
            \/ state_obj.exc # "none"
         THEN /\ Call(t, FALSE)
              /\ UNCHANGED <<previous, pc, ptxn, seen, read>>
         ELSE /\ pc' = [pc EXCEPT ![p] = "got"]
              /\ ptxn' = [ptxn EXCEPT ![p] = t]
              /\ seen' = [seen EXCEPT ![p] = state_obj.val]
              /\ calls' = calls + 1
              /\ UNCHANGED <<store, before, transaction, acked, result,
                             steps, accessed, previous, read>>

\* invocation p runs the rest of apply: authorization against the record its
\* get returned, validation, and state.set on the store as it is now
Set(p, ack) ==
  /\ pc[p] = "got"
  /\ LET ended == apply_after_get(ptxn[p], seen[p], store, ack) IN
     /\ store' = ended.state
     /\ result' = [exc |-> ended.exc, msg |-> ended.msg]
     /\ steps' = ended.steps
     /\ accessed' = ended.addresses
     /\ acked' = (ack /\ "set" \in Range(ended.steps))
  /\ before' = store
  /\ transaction' = ptxn[p]
  /\ pc' = [pc EXCEPT ![p] = "idle"]
  /\ read' = seen[p]
  /\ UNCHANGED <<calls, previous, ptxn, seen>>

\* the transactions the host interleaves: those of Work "a" and of
\* IndividualIdentity "a", so that invocations meet at an address
Contending ==
  {t \in Plain : t.payload.action = WORK /\ t.data.title = "a"}
    \cup {t \in Plain : t.payload.action = INDIVIDUAL /\ t.data.name = "a"}

NextInterleaved ==
  \/ \E p \in Slots, t \in Contending : Get(p, t)
  \/ \E p \in Slots, ack \in BOOLEAN : Set(p, ack)

SpecInterleaved == Init /\ [][NextInterleaved]_vars

\* ---- the host, with the call before the last one remembered ---------------

\* the host calls apply with a transaction of a record without splits and
\* references; the call that was the last one becomes the previous one
ApplyFollowing(t, ack) ==
  /\ calls < MaxFollowing
  /\ Call(t, ack)
  /\ previous' = [transaction |-> transaction, exc |-> result.exc,
                  called |-> calls > 0]
  /\ UNCHANGED <<pc, ptxn, seen, read>>

NextFollowing == \E t \in Plain, ack \in BOOLEAN : ApplyFollowing(t, ack)

SpecFollowing == Init /\ [][NextFollowing]_vars

\* ---- the last call, as the properties read it -----------------------------

Called == calls > 0

\* the signer and the action the last transaction carries
TxnSigner == transaction.header.signer_pubkey
TxnAction == transaction.payload.action

\* the address a well-formed transaction targets
Target == make_omi_address(ParseFromString(obj_types(TxnAction).val,
                                           transaction.data).val,
                           TxnAction).val

\* the owner field of the record stored as bytes at address a: pubkey under
\* the infixes a0 and a1, registering_pubkey under 00 and 01
OwnerField(a, bytes) ==
  LET field == IF a[7] = 10 THEN "pubkey" ELSE "registering_pubkey" IN
  IF field \in DOMAIN bytes THEN bytes[field] ELSE Default(field)

\* the last call found a record at its target, owned by owner
PriorOwnedBy(owner) ==
  /\ Called
  /\ transaction \in WellFormed
  /\ Target \in DOMAIN before
  /\ OwnerField(Target, before[Target]) = owner

SetInvoked == "set" \in Range(steps)

ChecksBeforeSet ==
  <<"unpack", "address", "get", "authorize", "split_sums", "references">>

RECURSIVE Sum(_)
Sum(seq) == IF seq = <<>> THEN 0 ELSE Head(seq) + Sum(Tail(seq))

\* ---- properties -----------------------------------------------------------

\* C1: whenever the owner field stored at an occupied address differs between
\* the store before and the store after an apply call, the signer of that call
\* equals the owner field stored at that address before the call.
C1_OwnerChangedOnlyByOwner ==
  Called =>
    \A a \in DOMAIN before \cap DOMAIN store :
      OwnerField(a, before[a]) # OwnerField(a, store[a])
        => /\ "signer_pubkey" \in DOMAIN transaction.header
           /\ TxnSigner = OwnerField(a, before[a])

\* C1 witness: a call has replaced the owner field at an occupied address
C1_Witness ==
  /\ Called
  /\ \E a \in DOMAIN before \cap DOMAIN store :
       /\ OwnerField(a, before[a]) = "K1"
       /\ OwnerField(a, store[a]) = "K2"

\* C2: if the target address holds a prior record whose owner field differs
\* from the transaction's signer, apply fails with
\* InvalidTransaction('Signing key mismatch') and the store is left as it was.
C2_MismatchRejected ==
  \A owner \in PubKeys :
    (PriorOwnedBy(owner) /\ TxnSigner # owner)
      => /\ result = [exc |-> "InvalidTransaction",
                      msg |-> "Signing key mismatch"]
         /\ ~SetInvoked
         /\ store = before

\* C2 witness: an identity owned by K1 was targeted by a transaction of K2
C2_Witness ==
  /\ PriorOwnedBy("K1")
  /\ TxnSigner = "K2"
  /\ TxnAction = ORGANIZATION
  /\ result.msg = "Signing key mismatch"

\* C3: if the target address holds a prior record whose owner field equals the
\* signer, apply asks the store to write, and when the store acknowledges the
\* write apply succeeds and the value at the address is exactly the
\* serialization of the incoming record, with no field of the prior record left.
C3_AuthorizedOverwriteReplaces ==
  PriorOwnedBy(TxnSigner)
    => /\ SetInvoked
       /\ acked => /\ result.exc = "none"
                   /\ store[Target] = transaction.data
                   /\ DOMAIN store = DOMAIN before

\* C3 witness: a Work with splits and a songwriter was overwritten by its
\* owner with a Work that carries neither
C3_Witness ==
  /\ PriorOwnedBy(TxnSigner)
  /\ acked
  /\ TxnAction = WORK
  /\ "splits" \in DOMAIN before[Target]
  /\ "songwriters" \in DOMAIN before[Target]
  /\ DOMAIN store[Target] = {"title", "pubkey"}

\* C4: SetIndividualIdentity for a name whose address is unoccupied succeeds
\* for every signer (the store acknowledging the write), and the
\* registering_pubkey stored at the address afterwards equals the signer.
C4_FirstWriterStoredAsOwner ==
  (/\ Called
   /\ transaction \in WellFormed
   /\ TxnAction = INDIVIDUAL
   /\ Target \notin DOMAIN before)
    => /\ SetInvoked
       /\ acked => /\ result.exc = "none"
                   /\ Target \in DOMAIN store
                   /\ OwnerField(Target, store[Target]) = TxnSigner

\* C5: whenever apply ends in a failure of any kind the store holds exactly
\* what it held before the call; set is invoked at most once per apply, and
\* only after decoding, authorization and both validators have passed.
C5_FailureLeavesStore ==
  Called =>
    /\ result.exc # "none" => store = before
    /\ Cardinality({i \in 1..Len(steps) : steps[i] = "set"}) <= 1
    /\ (SetInvoked \/ store # before) =>
         /\ Len(steps) = Len(ChecksBeforeSet) + 1
         /\ \A i \in 1..Len(ChecksBeforeSet) : steps[i] = ChecksBeforeSet[i]
         /\ transaction \in WellFormed
         /\ Target \in DOMAIN before
              => OwnerField(Target, before[Target]) = TxnSigner

\* C5 witness: a call on a store that holds records went as far as the write
\* and failed
C5_Witness ==
  /\ Called
  /\ before # EmptyStore
  /\ SetInvoked
  /\ result.exc = "InternalError"
  /\ store = before

\* C6: for a Work or Recording that carries split entries, apply fails with
\* InvalidTransaction and writes nothing when the percentages do not sum to
\* exactly 100 (stated for a store that acknowledges the writes asked of it).
C6_BadSplitSumRejected ==
  (/\ Called
   /\ transaction \in WellFormed
   /\ TxnAction \in {WORK, RECORDING}
   /\ "splits" \in DOMAIN transaction.data
   /\ Sum(transaction.data.splits) # 100
   /\ SetInvoked => acked)
    => /\ result.exc = "InvalidTransaction"
       /\ ~SetInvoked
       /\ store = before

\* C7: a SetWork transaction whose record names a songwriter identity that
\* has no entry in the store fails with InvalidTransaction and writes nothing
\* (stated for a store that acknowledges the writes asked of it).
C7_MissingReferenceRejected ==
  (/\ Called
   /\ transaction \in WellFormed
   /\ TxnAction = WORK
   /\ "songwriters" \in DOMAIN transaction.data
   /\ \E i \in 1..Len(transaction.data.songwriters) :
        make_omi_address([name |-> transaction.data.songwriters[i]],
                         INDIVIDUAL).val \notin DOMAIN before
   /\ SetInvoked => acked)
    => /\ result.exc = "InvalidTransaction"
       /\ ~SetInvoked
       /\ store = before

\* C8: when decoding, authorization and validation all pass but the store's
\* set call returns no written address, apply fails with InternalError.
C8_UnackedWriteIsInternalError ==
  (/\ Called
   /\ transaction \in WellFormed
   /\ Target \in DOMAIN before
        => OwnerField(Target, before[Target]) = TxnSigner
   /\ ~acked)
    => /\ SetInvoked
       /\ result.exc = "InternalError"

\* C8 witness: an authorized overwrite that the store did not acknowledge
C8_Witness ==
  /\ PriorOwnedBy(TxnSigner)
  /\ SetInvoked
  /\ ~acked
  /\ result = [exc |-> "InternalError", msg |-> "State error"]

\* C9: when the header bytes or the payload bytes do not parse, apply ends
\* with InternalError and performs no store write.
C9_BadEnvelopeIsInternalError ==
  (Called /\ transaction \in BadHeader \cup BadPayload)
    => /\ result.exc = "InternalError"
       /\ ~SetInvoked
       /\ store = before

\* C10: when the payload's action tag is none of the four known ones, apply
\* ends with a failure that is neither InvalidTransaction nor InternalError,
\* and the store is neither written nor changed.
C10_UnknownActionIsProgrammerError ==
  (Called /\ transaction \in BadAction)
    => /\ result.exc \notin {"none", "InvalidTransaction", "InternalError"}
       /\ ~SetInvoked
       /\ store = before

\* C10 witness: an unknown action reached a store that holds records
C10_Witness ==
  /\ Called
  /\ transaction \in BadAction
  /\ before # EmptyStore
  /\ result.exc = "KeyError"

\* ---- addresses and the codec, as the properties read them ------------------

\* the natural key of a record: title for Work and Recording, name for the
\* identities
NaturalKey(action, obj) ==
  IF action \in {WORK, RECORDING} THEN obj.title ELSE obj.name

\* a record of the action with the natural key key and nothing else set
Keyed(action, key) ==
  IF action \in {WORK, RECORDING}
  THEN [title |-> key, pubkey |-> "", splits |-> <<>>, songwriters |-> <<>>]
  ELSE [name |-> key, registering_pubkey |-> ""]

\* the address apply derives for (action, key)
AddressOf(action, key) == make_omi_address(Keyed(action, key), action).val

\* the address holds the same in the store as it held before the last call
Untouched(a) ==
  IF a \in DOMAIN before
  THEN a \in DOMAIN store /\ store[a] = before[a]
  ELSE a \notin DOMAIN store

\* the record the client serialized into the last transaction
TxnRecords ==
  {r \in Messages(TxnAction) : SerializeToString(r) = transaction.data}

\* the records of an action, those with empty strings included
RoundTripMessages(action) ==
  IF action \in {WORK, RECORDING}
  THEN {[title |-> title, pubkey |-> pubkey,
          splits |-> c.splits, songwriters |-> c.songwriters] :
          title \in Keys \cup {""}, pubkey \in PubKeys \cup {""}, c \in Credits}
  ELSE [name : Keys \cup {""}, registering_pubkey : PubKeys \cup {""}]

\* the addresses of Work and Recording under one key differ in the infix alone,
\* and no two actions share an address
InfixesSeparate ==
  /\ \A k \in Keys :
       LET w == AddressOf(WORK, k)
           r == AddressOf(RECORDING, k)
       IN  /\ w # r
           /\ SubSeq(w, 7, 8) = <<10, 0>>
           /\ SubSeq(r, 7, 8) = <<10, 1>>
           /\ Len(w) - 8 = 62
           /\ SubSeq(w, 9, Len(w)) = SubSeq(r, 9, Len(r))
  /\ \A a1, a2 \in KnownActions, k1, k2 \in Keys :
       a1 # a2 => AddressOf(a1, k1) # AddressOf(a2, k2)

\* C12: for every natural key the addresses of SetWork and SetRecording
\* differ (infix a0 against a1) while their 62-digit suffixes are the same;
\* two (action, key) pairs with different actions never share an address, so
\* a call leaves the entries of the other actions under its key as they were.
C12_ActionsNeverCollide ==
  /\ InfixesSeparate
  /\ (Called /\ transaction \in WellFormed) =>
       \A a \in KnownActions \ {TxnAction} :
         Untouched(AddressOf(a, NaturalKey(TxnAction, transaction.data)))

\* C12 witness: a Recording was written under the title of a stored Work of
\* another owner, and the store holds both
C12_Witness ==
  /\ Called
  /\ transaction \in WellFormed
  /\ TxnAction = RECORDING
  /\ acked
  /\ DOMAIN store = {AddressOf(WORK, "a"), AddressOf(RECORDING, "a")}
  /\ store[AddressOf(WORK, "a")].pubkey = "K1"
  /\ store[AddressOf(RECORDING, "a")].pubkey = "K2"

\* records of one action with the same natural key have the same address
SameKeySameAddress ==
  \A a \in KnownActions :
    \A r1, r2 \in Messages(a) :
      NaturalKey(a, r1) = NaturalKey(a, r2)
        => make_omi_address(r1, a) = make_omi_address(r2, a)

\* C13: the address apply reads and writes depends only on the action and the
\* natural key: two records of one action with the same natural key and
\* different other fields target the same address, the one a write lands at.
C13_AddressOnlyFromActionAndKey ==
  /\ SameKeySameAddress
  /\ (Called /\ transaction \in WellFormed /\ acked) =>
       LET a == AddressOf(TxnAction,
                          NaturalKey(TxnAction, transaction.data))
       IN  /\ a \in DOMAIN store
           /\ store[a] = transaction.data
           /\ \A b \in DOMAIN store \ {a} : Untouched(b)

\* C13 witness: a record was overwritten by one of the same action and key
\* with another owner field, and the store still holds one entry
C13_Witness ==
  /\ PriorOwnedBy("K1")
  /\ acked
  /\ DOMAIN store = {Target}
  /\ OwnerField(Target, store[Target]) = "K2"
  /\ NaturalKey(TxnAction, before[Target]) = NaturalKey(TxnAction, store[Target])

\* decode(encode(r), action) = r for the records of every action
RoundTripLaw ==
  \A a \in KnownActions :
    \A r \in RoundTripMessages(a) :
      _parse_object(SerializeToString(r), a) = Return(r)

\* C14: decoding the encoding of a record gives the record back, for each of
\* the four variants, and after a successful apply of record r the prior-state
\* load at the same address with the same action yields r, the record apply
\* decoded from the transaction.
C14_RoundTripThroughStore ==
  /\ RoundTripLaw
  /\ (Called /\ transaction \in WellFormed /\ result.exc = "none") =>
       /\ _get_state_object(store, Target, TxnAction).val
            = _unpack_transaction(transaction).val.obj
       /\ _unpack_transaction(transaction).val.obj \in TxnRecords

\* C14 witness: a Work without splits and songwriters was written, its bytes
\* carry neither field, and there is a record to load
C14_Witness ==
  /\ Called
  /\ transaction \in WellFormed
  /\ result.exc = "none"
  /\ TxnAction = WORK
  /\ DOMAIN store[Target] = {"title", "pubkey"}
  /\ TxnRecords # {}

\* the infix of each action, as the address scheme lists them
InfixOf(action) ==
  CASE action = WORK -> <<10, 0>>
    [] action = RECORDING -> <<10, 1>>
    [] action = INDIVIDUAL -> <<0, 0>>
    [] action = ORGANIZATION -> <<0, 1>>

\* 70 hex digits: the prefix the handler declares, the infix of the action,
\* 62 more
InNamespace(a, action) ==
  /\ Len(a) = 70
  /\ \A i \in 1..Len(a) : a[i] \in 0..15
  /\ Len(namespaces) = 1
  /\ Len(namespaces[1]) = 6
  /\ SubSeq(a, 1, 6) = namespaces[1]
  /\ SubSeq(a, 7, 8) = InfixOf(action)

\* C15: every address apply passes to the store's get or set is 70 hex digits
\* long: the single 6-digit prefix of the handler's namespaces, the 2-digit
\* infix of the transaction's action, and 62 more; no entry of the store lies
\* outside the declared namespace.
C15_AddressesInNamespace ==
  Called =>
    /\ \A i \in 1..Len(accessed) : InNamespace(accessed[i], TxnAction)
    /\ \A a \in DOMAIN store : \E action \in KnownActions : InNamespace(a, action)

\* C15 witness: a call has passed its address to get and to set
C15_Witness ==
  /\ Called
  /\ Len(accessed) = 2
  /\ SetInvoked
  /\ accessed[1] \in DOMAIN store

\* the address of (action, key) as the address scheme defines it: the declared
\* prefix, the infix of the action, the last 62 digits of the key's digest
SchemeAddress(action, key) ==
  namespaces[1] \o InfixOf(action) \o SubSeq(SHA512[key], 67, 128)

\* C16: a successful apply writes the store at exactly one address, the one
\* derived from the action and the natural key of the incoming record; the
\* value at every other address, those of the other actions under the same
\* key included, is unchanged.
C16_OneAddressWritten ==
  (Called /\ result.exc = "none") =>
    LET a == SchemeAddress(TxnAction, NaturalKey(TxnAction, transaction.data))
    IN  /\ accessed = <<a, a>>
        /\ a \in DOMAIN store
        /\ store[a] = transaction.data
        /\ DOMAIN store = DOMAIN before \cup {a}
        /\ \A b \in DOMAIN store \ {a} : Untouched(b)

\* C16 witness: an organization was registered under the name of a stored
\* individual, whose entry is as it was
C16_Witness ==
  /\ Called
  /\ result.exc = "none"
  /\ TxnAction = ORGANIZATION
  /\ DOMAIN before = {SchemeAddress(INDIVIDUAL, "a")}
  /\ DOMAIN store = {SchemeAddress(INDIVIDUAL, "a"),
                     SchemeAddress(ORGANIZATION, "a")}
  /\ store[SchemeAddress(INDIVIDUAL, "a")] = before[SchemeAddress(INDIVIDUAL, "a")]

\* the address a well-formed transaction t targets, by the address scheme
SchemeTarget(t) ==
  SchemeAddress(t.payload.action, NaturalKey(t.payload.action, t.data))

\* the call before the last one succeeded: signer wrote a record whose owner
\* field is owner, and the last call is a transaction at the same address
FollowsWriteBy(signer, owner) ==
  /\ previous.called
  /\ previous.exc = "none"
  /\ previous.transaction.header.signer_pubkey = signer
  /\ OwnerField(SchemeTarget(previous.transaction),
                previous.transaction.data) = owner
  /\ SchemeTarget(transaction) = SchemeTarget(previous.transaction)

InitForeign ==
  /\ \E action \in KnownActions, key \in Keys :
       store = [a \in {AddressOf(action, key)} |-> Garbage]
  /\ before = store
  /\ transaction = NoTransaction
  /\ acked = FALSE
  /\ result = [exc |-> "none", msg |-> ""]
  /\ steps = <<>>
  /\ accessed = <<>>
  /\ calls = 0
  /\ previous = [transaction |-> NoTransaction, exc |-> "none", called |-> FALSE]
  /\ pc = [p \in Slots |-> "idle"]
  /\ ptxn = [p \in Slots |-> NoTransaction]
  /\ seen = [p \in Slots |-> None]
  /\ read = None

NextForeign == \E t \in Plain, ack \in BOOLEAN : Apply(t, ack)

SpecForeign == InitForeign /\ [][NextForeign]_vars

\* C18: if the store holds at the target address a value that does not decode
\* as the record of the incoming action, apply fails with
\* InvalidTransaction('Invalid action') during the prior-state load and writes
\* nothing; only an absent entry is treated as 'no prior record', and then the
\* call goes on to the write whoever signed.
C18_UndecodablePriorRejected ==
  (Called /\ transaction \in WellFormed) =>
    /\ (Target \in DOMAIN before /\ before[Target] = Garbage) =>
         /\ result = [exc |-> "InvalidTransaction", msg |-> "Invalid action"]
         /\ steps = <<"unpack", "address">>
         /\ accessed = <<Target>>
         /\ store = before
    /\ Target \notin DOMAIN before => SetInvoked
    /\ SetInvoked =>
         \/ Target \notin DOMAIN before
         \/ OwnerField(Target, before[Target]) = TxnSigner

\* C18 witness: a transaction targeted the address that holds the foreign
\* bytes, after another address was written
C18_Witness ==
  /\ Called
  /\ transaction \in WellFormed
  /\ Target \in DOMAIN before
  /\ before[Target] = Garbage
  /\ result.msg = "Invalid action"
  /\ Cardinality(DOMAIN store) = 2

\* the last step was an acknowledged write that replaced the owner field
\* stored at its address
OwnerReplaced ==
  /\ SetInvoked
  /\ acked
  /\ Target \in DOMAIN before
  /\ OwnerField(Target, before[Target]) # OwnerField(Target, store[Target])

\* C19, as claimed: with two invocations interleaved at the store's get and
\* set calls, the owner field stored at an occupied address is never replaced
\* by a transaction whose signer differs from the owner field stored at the
\* address immediately before that transaction's write.
C19_InterleavedOwnerProtected ==
  OwnerReplaced => TxnSigner = OwnerField(Target, before[Target])

\* C19, amended: with two invocations interleaved at the store's get and set
\* calls, the owner field stored at an occupied address is never replaced by a
\* transaction whose signer differs from the owner field of the entry that
\* transaction's own get returned; a transaction whose get returned no entry
\* is not checked.
C19_OwnerReplacedPastOwnCheck ==
  OwnerReplaced =>
    \/ read = None
    \/ TxnSigner = OwnerField(Target, read)

\* C19 witness: a transaction read a record owned by its signer, the other
\* invocation then gave the record another owner, and the transaction's write
\* replaced that owner
C19_Witness ==
  /\ OwnerReplaced
  /\ read # None
  /\ TxnSigner = OwnerField(Target, read)
  /\ TxnSigner # OwnerField(Target, before[Target])

====
